---- MODULE Spec2Model ----
(***************************************************************************)
(* Model of tarodb/assets_common.go: the asset batch importer              *)
(* (upsertAssetsWithGenesis) with its genesis, group-key and script-key    *)
(* resolvers, running against the UpsertAssetStore interface, and          *)
(* fetchGenesis, running against the FetchGenesisStore interface.          *)
(*                                                                         *)
(* Every store call is one atomic step of a caller, so that failures and   *)
(* interleavings are observable between any two store calls.  The store    *)
(* behind the interface (the SQL queries) and the transaction scope of the *)
(* callers are not part of assets_common.go; they are modelled from the    *)
(* specification (insert-or-return-existing upserts, plain insert of       *)
(* assets, all-or-nothing transaction).                                    *)
(***************************************************************************)
EXTENDS Integers, Sequences, FiniteSets, TLC

VARIABLES
    db,     \* the relational store: one sequence of rows per table, id = position
    proc,   \* per caller: position in upsertAssetsWithGenesis and its locals
    tx,     \* per caller: the store as it was when the caller's transaction began
    log,    \* per caller: the store calls issued by the current import, in order
    prev,   \* summary of the preceding import, if it succeeded
    ncalls, \* number of imports started so far
    fetched \* the last call of fetchGenesis since the last import, if any

vars == <<db, proc, tx, log, prev, ncalls, fetched>>

----------------------------------------------------------------------------
(* Bounds of the model. *)

MaxBatch == 2
MaxCalls == 2
MaxConcBatch == 1

----------------------------------------------------------------------------
(* Values. *)

Nil == [nil |-> TRUE]

NoErr == "nil"
ErrStore == "store failure"
ErrNoRows == "sql: no rows in result set"
ErrPanic == "panic: index out of range"
ErrUnexpectedEOF == "unexpected EOF"
ErrEncode == "unable to encode genesis point"

\* sql.NullInt32
nullID == [Int32 |-> 0, Valid |-> FALSE]

sqlInt32(num) == IF num = 0 THEN nullID ELSE [Int32 |-> num, Valid |-> TRUE]

\* btcec.PublicKey.SerializeCompressed: parity prefix 0x02/0x03, then X.
PubKey(x, odd) == [X |-> x, Odd |-> odd]

SerializeCompressed(k) == <<IF k.Odd THEN 3 ELSE 2, k.X>>

\* wire.OutPoint and its binary form: hash, then the index little-endian.
OutPoint(h, i) == [Hash |-> h, Index |-> i]

encodeOutpoint(o) == <<o.Hash, o.Index % 256, o.Index \div 256>>

readOutPoint(b) ==
    IF Len(b) = 3 /\ b[2] \in 0..255
    THEN [ok |-> TRUE, op |-> OutPoint(b[1], b[2] + 256 * b[3])]
    ELSE [ok |-> FALSE, op |-> OutPoint(0, 0)]

\* A uint32 is kept as its two 16-bit halves, so that every value of the
\* full width is representable; an int32 is an integer in -2^31 .. 2^31-1.
U32(hi, lo) == [hi |-> hi, lo |-> lo]

\* Mutant: a conversion that saturates at the largest int32.
Int32OfUint32_saturating(u) ==
    IF u.hi >= 32768 THEN 32767 * 65536 + 65535
                     ELSE u.hi * 65536 + u.lo

\* int32(u): reinterpretation of the 32 bits as two's complement.
Int32OfUint32(u) ==
    IF u.hi >= 32768 THEN (u.hi - 65536) * 65536 + u.lo
                     ELSE u.hi * 65536 + u.lo

\* uint32(i): the inverse reinterpretation.
Uint32OfInt32(i) == U32((i \div 65536) % 65536, i % 65536)

\* asset.Genesis.ID(): digest over the genesis fields, taken as collision free.
GenesisID(g) ==
    <<encodeOutpoint(g.FirstPrevOut), g.Tag, g.Metadata, g.OutputIndex, g.Type>>

----------------------------------------------------------------------------
(* Inputs. *)

O1 == OutPoint(7, 0)
O2 == OutPoint(8, 258)

Outpoints == {O1, O2}

K1 == PubKey(11, TRUE)
K2 == PubKey(12, FALSE)
G1 == PubKey(21, FALSE)

KeyDesc(pub, family, index) == [PubKey |-> pub, Family |-> family, Index |-> index]

Genesis(tag, outIdx, type) ==
    [FirstPrevOut |-> O1, Tag |-> tag, Metadata |-> <<tag, 0>>,
     OutputIndex |-> outIdx, Type |-> type]

\* A1: no group key; wallet-derived script key K1 over the raw key K2
\* (family 1, index 2).
A1 == [Genesis |-> Genesis("a", U32(0, 0), 0),
       GroupKey |-> Nil,
       ScriptKey |-> [PubKey |-> K1,
                      TweakedScriptKey |-> [RawKey |-> KeyDesc(K2, 1, 2), Tweak |-> <<9>>]],
       Version |-> 0, ScriptVersion |-> 1, Amount |-> 5,
       LockTime |-> 0, RelativeLockTime |-> 0]

\* A2: group key G1 whose raw key is unknown; observed script key with the
\* bytes of K2.
A2 == [Genesis |-> Genesis("b", U32(0, 1), 1),
       GroupKey |-> [GroupPubKey |-> G1, RawKey |-> KeyDesc(Nil, 0, 0), Sig |-> <<1>>],
       ScriptKey |-> [PubKey |-> K2, TweakedScriptKey |-> Nil],
       Version |-> 0, ScriptVersion |-> 1, Amount |-> 1,
       LockTime |-> 3, RelativeLockTime |-> 0]

\* A3: the same group key G1, now with the raw key K2 under another
\* family/index; observed script key K1 (the tweaked key A1 derives); an
\* output index with the top bit set.
A3 == [Genesis |-> Genesis("c", U32(32768, 2), 0),
       GroupKey |-> [GroupPubKey |-> G1, RawKey |-> KeyDesc(K2, 3, 4), Sig |-> <<2>>],
       ScriptKey |-> [PubKey |-> K1, TweakedScriptKey |-> Nil],
       Version |-> 0, ScriptVersion |-> 1, Amount |-> 2,
       LockTime |-> 0, RelativeLockTime |-> 4]

AssetPool == {A1, A2, A3}

Batches == UNION {[1..n -> AssetPool] : n \in 0..MaxBatch}

\* The batches of interleaved imports.
ConcBatches == UNION {[1..n -> AssetPool] : n \in 0..MaxConcBatch}

\* The assets of a batch share the genesis outpoint of the batch: it is the
\* first previous outpoint of the genesis of each.
WithGenesisPoint(as, o) ==
    [i \in 1..Len(as) |-> [as[i] EXCEPT !.Genesis.FirstPrevOut = o]]

\* Anchor references: none, or the first one or two of a fixed list.
AnchorList == <<sqlInt32(41), sqlInt32(42)>>

AnchorChoices == {SubSeq(AnchorList, 1, n) : n \in 0..Len(AnchorList)}

----------------------------------------------------------------------------
(* The store behind UpsertAssetStore: insert-or-return-existing upserts,   *)
(* keyed by the identity of each entity; InsertNewAsset is a plain insert. *)
(* Each operation returns the store after the call and the primary key.    *)

Tables ==
    {"genesis_points", "genesis_assets", "internal_keys", "asset_groups",
     "asset_group_sigs", "script_keys", "assets"}

EmptyDB == [t \in Tables |-> <<>>]

\* The identity of a row: the key its table is unique on.
RowKey(table, r) ==
    CASE table = "genesis_points" -> r.PrevOut
      [] table = "genesis_assets" -> r.AssetID
      [] table = "internal_keys" -> r.RawKey
      [] table = "asset_groups" -> r.TweakedGroupKey
      [] table = "asset_group_sigs" -> <<r.GenAssetID, r.GroupKeyID>>
      [] table = "script_keys" -> r.TweakedScriptKey

\* The primary key of the first row of the table with this identity, or 0.
Find(d, table, key) ==
    LET rows == d[table] IN
    IF \E i \in 1..Len(rows) : RowKey(table, rows[i]) = key
    THEN CHOOSE i \in 1..Len(rows) :
            /\ RowKey(table, rows[i]) = key
            /\ \A j \in 1..(i - 1) : RowKey(table, rows[j]) # key
    ELSE 0

\* Insert the row unless a row with its identity exists; the existing row is
\* left as it is.
Upsert(d, table, row) ==
    LET id == Find(d, table, RowKey(table, row))
    IN  IF id # 0
        THEN [db |-> d, id |-> id]
        ELSE [db |-> [d EXCEPT ![table] = Append(@, row)], id |-> Len(d[table]) + 1]

UpsertGenesisPoint(d, prevOut) == Upsert(d, "genesis_points", [PrevOut |-> prevOut])

UpsertGenesisAsset(d, arg) == Upsert(d, "genesis_assets", arg)

UpsertInternalKey(d, arg) == Upsert(d, "internal_keys", arg)

UpsertAssetGroupKey(d, arg) == Upsert(d, "asset_groups", arg)

UpsertAssetGroupSig(d, arg) == Upsert(d, "asset_group_sigs", arg)

UpsertScriptKey(d, arg) == Upsert(d, "script_keys", arg)

InsertNewAsset(d, arg) ==
    [db |-> [d EXCEPT !["assets"] = Append(@, arg)], id |-> Len(d["assets"]) + 1]

FetchScriptKeyIDByTweakedKey(d, tweakedScriptKey) ==
    LET id == Find(d, "script_keys", tweakedScriptKey)
    IN  [id |-> id, err |-> IF id = 0 THEN ErrNoRows ELSE NoErr]

\* The genesis_assets row with this primary key, joined with the outpoint
\* of its genesis_points row; no such row is ErrNoRows.
NoGenesisRow ==
    [AssetID |-> <<>>, AssetTag |-> "", MetaData |-> <<>>, OutputIndex |-> 0,
     AssetType |-> 0, PrevOut |-> <<>>]

FetchGenesisByID(d, assetID) ==
    IF assetID \in 1..Len(d["genesis_assets"])
    THEN LET row == d["genesis_assets"][assetID]
         IN  [gen |-> [AssetID |-> row.AssetID,
                       AssetTag |-> row.AssetTag,
                       MetaData |-> row.MetaData,
                       OutputIndex |-> row.OutputIndex,
                       AssetType |-> row.AssetType,
                       PrevOut |-> d["genesis_points"][row.GenesisPointID].PrevOut],
              err |-> NoErr]
    ELSE [gen |-> NoGenesisRow, err |-> ErrNoRows]

\* What the store answers to FetchGenesisByID: the row, a failure, or a row
\* whose outpoint bytes are cut short.
FetchOutcomes == {"ok", "fail", "short"}

FetchGenesisAnswer(d, assetID, outcome) ==
    LET r == FetchGenesisByID(d, assetID)
    IN  CASE outcome = "ok" -> r
          [] outcome = "fail" -> [gen |-> NoGenesisRow, err |-> ErrStore]
          [] outcome = "short" ->
                 [r EXCEPT !.gen.PrevOut = SubSeq(@, 1, Len(@) - 1)]

Sizes(d) == [t \in Tables |-> Len(d[t])]

----------------------------------------------------------------------------
(* The arguments the resolvers build for the store. *)

\* upsertGenesis: the genesis_assets row.
GenesisAssetArg(genesisPointID, genesis) ==
    [AssetID |-> GenesisID(genesis),
     AssetTag |-> genesis.Tag,
     MetaData |-> genesis.Metadata,
     OutputIndex |-> Int32OfUint32(genesis.OutputIndex),
     AssetType |-> genesis.Type,
     GenesisPointID |-> genesisPointID]

\* Mutant: the internal key of a group is always resolved by the tweaked
\* group key.
GroupRawKeyBytes_tweaked(groupKey) == SerializeCompressed(groupKey.GroupPubKey)

\* upsertGroupKey: the raw key is the group public key unless the raw key is known.
GroupRawKeyBytes(groupKey) ==
    IF groupKey.RawKey.PubKey # Nil
    THEN SerializeCompressed(groupKey.RawKey.PubKey)
    ELSE SerializeCompressed(groupKey.GroupPubKey)

GroupInternalKeyArg(groupKey) ==
    [RawKey |-> GroupRawKeyBytes(groupKey),
     KeyFamily |-> groupKey.RawKey.Family,
     KeyIndex |-> groupKey.RawKey.Index]

\* Mutant: the group key row refers to the internal key where the genesis
\* point belongs.
AssetGroupKeyArg_keyAsPoint(groupKey, keyID, genesisPointID) ==
    [TweakedGroupKey |-> SerializeCompressed(groupKey.GroupPubKey),
     InternalKeyID |-> keyID,
     GenesisPointID |-> keyID]

\* Mutant: the group key row is keyed by the raw key instead of the tweaked
\* group key.
AssetGroupKeyArg_rawKeyed(groupKey, keyID, genesisPointID) ==
    [TweakedGroupKey |-> GroupRawKeyBytes(groupKey),
     InternalKeyID |-> keyID,
     GenesisPointID |-> genesisPointID]

AssetGroupKeyArg(groupKey, keyID, genesisPointID) ==
    [TweakedGroupKey |-> SerializeCompressed(groupKey.GroupPubKey),
     InternalKeyID |-> keyID,
     GenesisPointID |-> genesisPointID]

\* Mutant: the two references of the group sig row change places.
AssetGroupSigArg_swapped(groupKey, genAssetID, groupID) ==
    [GenesisSig |-> groupKey.Sig, GenAssetID |-> groupID, GroupKeyID |-> genAssetID]

AssetGroupSigArg(groupKey, genAssetID, groupID) ==
    [GenesisSig |-> groupKey.Sig, GenAssetID |-> genAssetID, GroupKeyID |-> groupID]

\* Mutant: the derived path drops the key family and index.
DerivedInternalKeyArg_noDesc(scriptKey) ==
    [RawKey |-> SerializeCompressed(scriptKey.TweakedScriptKey.RawKey.PubKey),
     KeyFamily |-> 0,
     KeyIndex |-> 0]

\* upsertScriptKey, raw key known.
DerivedInternalKeyArg(scriptKey) ==
    [RawKey |-> SerializeCompressed(scriptKey.TweakedScriptKey.RawKey.PubKey),
     KeyFamily |-> scriptKey.TweakedScriptKey.RawKey.Family,
     KeyIndex |-> scriptKey.TweakedScriptKey.RawKey.Index]

\* Mutant: the derived script key is written without its internal key.
DerivedScriptKeyArg_noKey(rawScriptKeyID, scriptKey) ==
    [InternalKeyID |-> 0,
     TweakedScriptKey |-> SerializeCompressed(scriptKey.PubKey),
     Tweak |-> scriptKey.TweakedScriptKey.Tweak]

DerivedScriptKeyArg(rawScriptKeyID, scriptKey) ==
    [InternalKeyID |-> rawScriptKeyID,
     TweakedScriptKey |-> SerializeCompressed(scriptKey.PubKey),
     Tweak |-> scriptKey.TweakedScriptKey.Tweak]

\* upsertScriptKey, only the tweaked key known: the tweaked key stands in as
\* raw key, family, index and tweak keep their zero values.
ObservedInternalKeyArg(scriptKey) ==
    [RawKey |-> SerializeCompressed(scriptKey.PubKey), KeyFamily |-> 0, KeyIndex |-> 0]

\* Mutant: the observed script key is written without its internal key.
ObservedScriptKeyArg_noKey(rawScriptKeyID, scriptKey) ==
    [InternalKeyID |-> 0,
     TweakedScriptKey |-> SerializeCompressed(scriptKey.PubKey),
     Tweak |-> <<>>]

ObservedScriptKeyArg(rawScriptKeyID, scriptKey) ==
    [InternalKeyID |-> rawScriptKeyID,
     TweakedScriptKey |-> SerializeCompressed(scriptKey.PubKey),
     Tweak |-> <<>>]

\* Mutant: the fallback runs whatever the lookup returned.
FetchSelectsFallback_always(err) == TRUE

\* upsertScriptKey: any error of the lookup selects the fallback.
FetchSelectsFallback(err) == err # NoErr

\* Mutant: the fallback declares a new scriptKeyID (:=) and the outer one,
\* still zero after the failed lookup, is returned.
FallbackResult_shadowed(rawScriptKeyID, scriptKeyID) == 0

\* upsertScriptKey: the identifier the fallback returns.
FallbackResult(rawScriptKeyID, scriptKeyID) == scriptKeyID

\* asset.Genesis{}
ZeroGenesis ==
    [FirstPrevOut |-> OutPoint(0, 0), Tag |-> "", Metadata |-> <<>>,
     OutputIndex |-> U32(0, 0), Type |-> 0]

\* Mutant: the genesis is filled in before the outpoint is decoded, and
\* returned as far as it got.
fetchGenesis_partial(r) ==
    IF r.err # NoErr
    THEN [genesis |-> ZeroGenesis, err |-> r.err]
    ELSE LET o == readOutPoint(r.gen.PrevOut)
             g == [FirstPrevOut |-> o.op,
                   Tag |-> r.gen.AssetTag,
                   Metadata |-> r.gen.MetaData,
                   OutputIndex |-> Uint32OfInt32(r.gen.OutputIndex),
                   Type |-> r.gen.AssetType]
         IN  [genesis |-> g, err |-> IF o.ok THEN NoErr ELSE ErrUnexpectedEOF]

\* fetchGenesis, given the answer of q.FetchGenesisByID.
fetchGenesis(r) ==
    IF r.err # NoErr
    THEN [genesis |-> ZeroGenesis, err |-> r.err]
    ELSE LET o == readOutPoint(r.gen.PrevOut)
         IN  IF ~o.ok
             THEN [genesis |-> ZeroGenesis, err |-> ErrUnexpectedEOF]
             ELSE [genesis |-> [FirstPrevOut |-> o.op,
                                Tag |-> r.gen.AssetTag,
                                Metadata |-> r.gen.MetaData,
                                OutputIndex |-> Uint32OfInt32(r.gen.OutputIndex),
                                Type |-> r.gen.AssetType],
                   err |-> NoErr]

\* upsertAssetsWithGenesis: "is the asset anchored already?"
AnchorPanics(anchorUtxoIDs, idx) ==
    Len(anchorUtxoIDs) > 0 /\ idx > Len(anchorUtxoIDs)

AnchorFor(anchorUtxoIDs, idx) ==
    IF Len(anchorUtxoIDs) > 0 THEN anchorUtxoIDs[idx] ELSE nullID

NewAssetArg(a, genAssetID, scriptKeyID, groupSigID, anchorUtxoID) ==
    [GenesisID |-> genAssetID,
     Version |-> a.Version,
     ScriptKeyID |-> scriptKeyID,
     AssetGroupSigID |-> groupSigID,
     ScriptVersion |-> a.ScriptVersion,
     Amount |-> a.Amount,
     LockTime |-> sqlInt32(a.LockTime),
     RelativeLockTime |-> sqlInt32(a.RelativeLockTime),
     AnchorUtxoID |-> anchorUtxoID]

\* Mutant: the identifiers are filled in from the end of the slice.
SetAssetID_reversed(assetIDs, idx, id) ==
    [assetIDs EXCEPT ![Len(assetIDs) + 1 - idx] = id]

\* assetIDs := make([]int32, len(assets)); assetIDs[idx] = id
MakeAssetIDs(n) == [i \in 1..n |-> 0]

SetAssetID(assetIDs, idx, id) == [assetIDs EXCEPT ![idx] = id]

----------------------------------------------------------------------------
(* Callers. *)

Callers == {1, 2}

\* Return values of upsertAssetsWithGenesis.
Ret(genesisPointID, assetIDs, err) ==
    [genesisPointID |-> genesisPointID, assetIDs |-> assetIDs, err |-> err]

IdleProc ==
    [pc |-> "idle",
     genesisOutpoint |-> O1, assets |-> <<>>, anchorUtxoIDs |-> <<>>,
     idx |-> 0, genesisPointID |-> 0, genAssetID |-> 0,
     keyID |-> 0, groupID |-> 0, groupSigID |-> nullID,
     rawScriptKeyID |-> 0, scriptKeyID |-> 0,
     assetIDs |-> <<>>,
     ret |-> Ret(0, <<>>, NoErr)]

NoPrev ==
    [valid |-> FALSE, genesisOutpoint |-> O1, assets |-> <<>>, anchorUtxoIDs |-> <<>>,
     ret |-> Ret(0, <<>>, NoErr), sizes |-> Sizes(EmptyDB)]

Summary(pr, d) ==
    [valid |-> TRUE, genesisOutpoint |-> pr.genesisOutpoint, assets |-> pr.assets,
     anchorUtxoIDs |-> pr.anchorUtxoIDs, ret |-> pr.ret, sizes |-> Sizes(d)]

\* No call of fetchGenesis on record.
NoFetch ==
    [valid |-> FALSE, assetID |-> 0, answer |-> "ok",
     genesis |-> ZeroGenesis, err |-> NoErr]

Active(p) == proc[p].pc \notin {"idle", "done"}

\* One entry of the call log: the store method, the resolver that called it,
\* the position of the asset it was called for (0 before the loop), the
\* argument, whether the store carried the call out, and the returned key.
Call(op, fn, idx, arg, ok, id) ==
    [op |-> op, fn |-> fn, idx |-> idx, arg |-> arg, ok |-> ok, id |-> id]

\* The outcomes of a store call: it succeeds, or (with faults) it fails.
Outcomes(faults) == IF faults THEN {TRUE, FALSE} ELSE {TRUE}

\* The outcomes of encodeOutpoint: the bytes, or (with faults) an error.
EncodeOutcomes(faults) == IF faults THEN {TRUE, FALSE} ELSE {TRUE}

\* return 0, nil, fmt.Errorf(...: %w, err)
ReturnErr(pr, err) == [pr EXCEPT !.pc = "return", !.ret = Ret(0, <<>>, err)]

\* Mutant: the loop ends at an asset that repeats the one before it.
LoopHead_dedup(pr, idx) ==
    IF idx > Len(pr.assets) \/ (idx > 1 /\ pr.assets[idx] = pr.assets[idx - 1])
    THEN [pr EXCEPT !.pc = "return", !.idx = idx,
                    !.ret = Ret(pr.genesisPointID, pr.assetIDs, NoErr)]
    ELSE [pr EXCEPT !.pc = "UpsertGenesisAsset", !.idx = idx]

\* The head of the loop over the assets: the next asset, or the final return.
LoopHead(pr, idx) ==
    IF idx > Len(pr.assets)
    THEN [pr EXCEPT !.pc = "return", !.idx = idx,
                    !.ret = Ret(pr.genesisPointID, pr.assetIDs, NoErr)]
    ELSE [pr EXCEPT !.pc = "UpsertGenesisAsset", !.idx = idx]

\* Mutant: the asset row is inserted before its script key is resolved.
ScriptKeyEntry_skipped(scriptKey) == "InsertNewAsset"

\* upsertScriptKey: the first store call, by the provenance of the script key.
ScriptKeyEntry(scriptKey) ==
    IF scriptKey.TweakedScriptKey # Nil THEN "DerivedInternalKey" ELSE "FetchScriptKey"

\* Mutant: without a group key the group-sig reference of the preceding
\* asset is kept.
GroupKeyEntry_stale(pr, a) ==
    IF a.GroupKey = Nil
    THEN [pr EXCEPT !.pc = ScriptKeyEntry(a.ScriptKey)]
    ELSE [pr EXCEPT !.pc = "GroupInternalKey"]

\* upsertGroupKey: nothing to do without a group key.
GroupKeyEntry(pr, a) ==
    IF a.GroupKey = Nil
    THEN [pr EXCEPT !.groupSigID = nullID, !.pc = ScriptKeyEntry(a.ScriptKey)]
    ELSE [pr EXCEPT !.pc = "GroupInternalKey"]

Step(p, pr, d, call) ==
    /\ proc' = [proc EXCEPT ![p] = pr]
    /\ db' = d
    /\ log' = [log EXCEPT ![p] = Append(@, call)]
    /\ UNCHANGED <<tx, prev, ncalls, fetched>>

----------------------------------------------------------------------------
(* Actions. *)

Init ==
    /\ db = EmptyDB
    /\ proc = [p \in Callers |-> IdleProc]
    /\ tx = [p \in Callers |-> EmptyDB]
    /\ log = [p \in Callers |-> <<>>]
    /\ prev = NoPrev
    /\ ncalls = 0
    /\ fetched = NoFetch

\* A caller opens its transaction and enters upsertAssetsWithGenesis.
Begin(p, serial, batches, anchors) ==
    /\ ~Active(p)
    /\ ncalls < MaxCalls
    /\ serial => \A q \in Callers : ~Active(q)
    /\ \E o \in Outpoints, as \in batches, an \in anchors :
         proc' = [proc EXCEPT ![p] =
                    [IdleProc EXCEPT !.pc = "UpsertGenesisPoint",
                                     !.genesisOutpoint = o,
                                     !.assets = WithGenesisPoint(as, o),
                                     !.anchorUtxoIDs = an,
                                     !.assetIDs = <<>>]]
    /\ tx' = [tx EXCEPT ![p] = db]
    /\ log' = [log EXCEPT ![p] = <<>>]
    /\ prev' = IF proc[p].pc = "done" /\ proc[p].ret.err = NoErr
               THEN Summary(proc[p], db) ELSE NoPrev
    /\ ncalls' = ncalls + 1
    /\ fetched' = NoFetch
    /\ UNCHANGED db

\* upsertGenesisPoint, then make([]int32, len(assets)) and the loop head.
\* When encodeOutpoint returns an error, the error is returned before any
\* store call.
upsertGenesisPoint(p, faults) ==
    /\ proc[p].pc = "UpsertGenesisPoint"
    /\ \E encoded \in EncodeOutcomes(faults), ok \in Outcomes(faults) :
         LET pr == proc[p]
             arg == encodeOutpoint(pr.genesisOutpoint)
             r == UpsertGenesisPoint(db, arg)
         IN  IF ~encoded
             THEN /\ proc' = [proc EXCEPT ![p] = ReturnErr(pr, ErrEncode)]
                  /\ UNCHANGED <<db, tx, log, prev, ncalls, fetched>>
             ELSE IF ok
             THEN Step(p, LoopHead([pr EXCEPT !.genesisPointID = r.id,
                                              !.assetIDs = MakeAssetIDs(Len(pr.assets))], 1),
                       r.db, Call("UpsertGenesisPoint", "upsertGenesisPoint", 0, arg, TRUE, r.id))
             ELSE Step(p, ReturnErr(pr, ErrStore), db,
                       Call("UpsertGenesisPoint", "upsertGenesisPoint", 0, arg, FALSE, 0))

\* upsertGenesis for the current asset, then the entry of upsertGroupKey.
upsertGenesis(p, faults) ==
    /\ proc[p].pc = "UpsertGenesisAsset"
    /\ \E ok \in Outcomes(faults) :
         LET pr == proc[p]
             a == pr.assets[pr.idx]
             arg == GenesisAssetArg(pr.genesisPointID, a.Genesis)
             r == UpsertGenesisAsset(db, arg)
         IN  IF ok
             THEN Step(p, GroupKeyEntry([pr EXCEPT !.genAssetID = r.id], a),
                       r.db, Call("UpsertGenesisAsset", "upsertGenesis", pr.idx, arg, TRUE, r.id))
             ELSE Step(p, ReturnErr(pr, ErrStore), db,
                       Call("UpsertGenesisAsset", "upsertGenesis", pr.idx, arg, FALSE, 0))

\* upsertGroupKey: q.UpsertInternalKey.
upsertGroupKeyInternalKey(p, faults) ==
    /\ proc[p].pc = "GroupInternalKey"
    /\ \E ok \in Outcomes(faults) :
         LET pr == proc[p]
             a == pr.assets[pr.idx]
             arg == GroupInternalKeyArg(a.GroupKey)
             r == UpsertInternalKey(db, arg)
         IN  IF ok
             THEN Step(p, [pr EXCEPT !.keyID = r.id, !.pc = "UpsertAssetGroupKey"],
                       r.db, Call("UpsertInternalKey", "upsertGroupKey", pr.idx, arg, TRUE, r.id))
             ELSE Step(p, ReturnErr(pr, ErrStore), db,
                       Call("UpsertInternalKey", "upsertGroupKey", pr.idx, arg, FALSE, 0))

\* upsertGroupKey: q.UpsertAssetGroupKey.
upsertGroupKeyGroupKey(p, faults) ==
    /\ proc[p].pc = "UpsertAssetGroupKey"
    /\ \E ok \in Outcomes(faults) :
         LET pr == proc[p]
             a == pr.assets[pr.idx]
             arg == AssetGroupKeyArg(a.GroupKey, pr.keyID, pr.genesisPointID)
             r == UpsertAssetGroupKey(db, arg)
         IN  IF ok
             THEN Step(p, [pr EXCEPT !.groupID = r.id, !.pc = "UpsertAssetGroupSig"],
                       r.db, Call("UpsertAssetGroupKey", "upsertGroupKey", pr.idx, arg, TRUE, r.id))
             ELSE Step(p, ReturnErr(pr, ErrStore), db,
                       Call("UpsertAssetGroupKey", "upsertGroupKey", pr.idx, arg, FALSE, 0))

\* upsertGroupKey: q.UpsertAssetGroupSig, then the entry of upsertScriptKey.
upsertGroupKeyGroupSig(p, faults) ==
    /\ proc[p].pc = "UpsertAssetGroupSig"
    /\ \E ok \in Outcomes(faults) :
         LET pr == proc[p]
             a == pr.assets[pr.idx]
             arg == AssetGroupSigArg(a.GroupKey, pr.genAssetID, pr.groupID)
             r == UpsertAssetGroupSig(db, arg)
         IN  IF ok
             THEN Step(p, [pr EXCEPT !.groupSigID = sqlInt32(r.id),
                                     !.pc = ScriptKeyEntry(a.ScriptKey)],
                       r.db, Call("UpsertAssetGroupSig", "upsertGroupKey", pr.idx, arg, TRUE, r.id))
             ELSE Step(p, ReturnErr(pr, ErrStore), db,
                       Call("UpsertAssetGroupSig", "upsertGroupKey", pr.idx, arg, FALSE, 0))

\* upsertScriptKey, derived path: q.UpsertInternalKey.
upsertScriptKeyDerivedInternalKey(p, faults) ==
    /\ proc[p].pc = "DerivedInternalKey"
    /\ \E ok \in Outcomes(faults) :
         LET pr == proc[p]
             a == pr.assets[pr.idx]
             arg == DerivedInternalKeyArg(a.ScriptKey)
             r == UpsertInternalKey(db, arg)
         IN  IF ok
             THEN Step(p, [pr EXCEPT !.rawScriptKeyID = r.id, !.pc = "DerivedScriptKey"],
                       r.db, Call("UpsertInternalKey", "upsertScriptKey", pr.idx, arg, TRUE, r.id))
             ELSE Step(p, ReturnErr(pr, ErrStore), db,
                       Call("UpsertInternalKey", "upsertScriptKey", pr.idx, arg, FALSE, 0))

\* upsertScriptKey, derived path: q.UpsertScriptKey.
upsertScriptKeyDerivedScriptKey(p, faults) ==
    /\ proc[p].pc = "DerivedScriptKey"
    /\ \E ok \in Outcomes(faults) :
         LET pr == proc[p]
             a == pr.assets[pr.idx]
             arg == DerivedScriptKeyArg(pr.rawScriptKeyID, a.ScriptKey)
             r == UpsertScriptKey(db, arg)
         IN  IF ok
             THEN Step(p, [pr EXCEPT !.scriptKeyID = r.id, !.pc = "InsertNewAsset"],
                       r.db, Call("UpsertScriptKey", "upsertScriptKey", pr.idx, arg, TRUE, r.id))
             ELSE Step(p, ReturnErr(pr, ErrStore), db,
                       Call("UpsertScriptKey", "upsertScriptKey", pr.idx, arg, FALSE, 0))

\* upsertScriptKey, observed path: q.FetchScriptKeyIDByTweakedKey.  The lookup
\* hits, misses (ErrNoRows) or, with faults, fails in the store.
upsertScriptKeyFetch(p, faults) ==
    /\ proc[p].pc = "FetchScriptKey"
    /\ \E ok \in Outcomes(faults) :
         LET pr == proc[p]
             a == pr.assets[pr.idx]
             arg == SerializeCompressed(a.ScriptKey.PubKey)
             r == IF ok THEN FetchScriptKeyIDByTweakedKey(db, arg)
                        ELSE [id |-> 0, err |-> ErrStore]
         IN  Step(p,
                  IF FetchSelectsFallback(r.err)
                  THEN [pr EXCEPT !.scriptKeyID = r.id, !.pc = "FallbackInternalKey"]
                  ELSE [pr EXCEPT !.scriptKeyID = r.id, !.pc = "InsertNewAsset"],
                  db, Call("FetchScriptKeyIDByTweakedKey", "upsertScriptKey", pr.idx, arg, ok, r.id))

\* upsertScriptKey, observed path after a failed lookup: q.UpsertInternalKey.
upsertScriptKeyFallbackInternalKey(p, faults) ==
    /\ proc[p].pc = "FallbackInternalKey"
    /\ \E ok \in Outcomes(faults) :
         LET pr == proc[p]
             a == pr.assets[pr.idx]
             arg == ObservedInternalKeyArg(a.ScriptKey)
             r == UpsertInternalKey(db, arg)
         IN  IF ok
             THEN Step(p, [pr EXCEPT !.rawScriptKeyID = r.id, !.pc = "FallbackScriptKey"],
                       r.db, Call("UpsertInternalKey", "upsertScriptKey", pr.idx, arg, TRUE, r.id))
             ELSE Step(p, ReturnErr(pr, ErrStore), db,
                       Call("UpsertInternalKey", "upsertScriptKey", pr.idx, arg, FALSE, 0))

\* upsertScriptKey, observed path after a failed lookup: q.UpsertScriptKey.
upsertScriptKeyFallbackScriptKey(p, faults) ==
    /\ proc[p].pc = "FallbackScriptKey"
    /\ \E ok \in Outcomes(faults) :
         LET pr == proc[p]
             a == pr.assets[pr.idx]
             arg == ObservedScriptKeyArg(pr.rawScriptKeyID, a.ScriptKey)
             r == UpsertScriptKey(db, arg)
         IN  IF ok
             THEN Step(p, [pr EXCEPT !.scriptKeyID = FallbackResult(pr.rawScriptKeyID, r.id),
                                     !.pc = "InsertNewAsset"],
                       r.db, Call("UpsertScriptKey", "upsertScriptKey", pr.idx, arg, TRUE, r.id))
             ELSE Step(p, ReturnErr(pr, ErrStore), db,
                       Call("UpsertScriptKey", "upsertScriptKey", pr.idx, arg, FALSE, 0))

\* The anchor reference of the current asset, q.InsertNewAsset, and the loop
\* head.  Indexing past the end of anchorUtxoIDs panics before the store call.
insertNewAsset(p, faults) ==
    /\ proc[p].pc = "InsertNewAsset"
    /\ LET pr == proc[p]
           a == pr.assets[pr.idx]
       IN  IF AnchorPanics(pr.anchorUtxoIDs, pr.idx)
           THEN /\ proc' = [proc EXCEPT ![p] = ReturnErr(pr, ErrPanic)]
                /\ UNCHANGED <<db, tx, log, prev, ncalls, fetched>>
           ELSE \E ok \in Outcomes(faults) :
                  LET arg == NewAssetArg(a, pr.genAssetID, pr.scriptKeyID, pr.groupSigID,
                                         AnchorFor(pr.anchorUtxoIDs, pr.idx))
                      r == InsertNewAsset(db, arg)
                  IN  IF ok
                      THEN Step(p, LoopHead([pr EXCEPT !.assetIDs =
                                                SetAssetID(pr.assetIDs, pr.idx, r.id)],
                                            pr.idx + 1),
                                r.db, Call("InsertNewAsset", "upsertAssetsWithGenesis", pr.idx, arg, TRUE, r.id))
                      ELSE Step(p, ReturnErr(pr, ErrStore), db,
                                Call("InsertNewAsset", "upsertAssetsWithGenesis", pr.idx, arg, FALSE, 0))

\* fetchGenesis for some primary key, between imports.
FetchGenesis(faults) ==
    /\ \A q \in Callers : ~Active(q)
    /\ \E assetID \in 1..(Len(db["genesis_assets"]) + 1),
          outcome \in (IF faults THEN FetchOutcomes ELSE {"ok"}) :
         LET r == fetchGenesis(FetchGenesisAnswer(db, assetID, outcome))
         IN  fetched' = [valid |-> TRUE, assetID |-> assetID, answer |-> outcome,
                         genesis |-> r.genesis, err |-> r.err]
    /\ UNCHANGED <<db, proc, tx, log, prev, ncalls>>

\* The transaction scope around the import: commit when it returned no
\* error, roll back to the state at its beginning otherwise.
Return(p) ==
    /\ proc[p].pc = "return"
    /\ proc' = [proc EXCEPT ![p].pc = "done"]
    /\ db' = IF proc[p].ret.err = NoErr THEN db ELSE tx[p]
    /\ UNCHANGED <<tx, log, prev, ncalls, fetched>>

----------------------------------------------------------------------------
(* Specifications. *)

\* One import at a time; every store call may fail.
Next ==
    \E p \in {1} :
        \/ Begin(p, TRUE, Batches, AnchorChoices)
        \/ upsertGenesisPoint(p, TRUE)
        \/ upsertGenesis(p, TRUE)
        \/ upsertGroupKeyInternalKey(p, TRUE)
        \/ upsertGroupKeyGroupKey(p, TRUE)
        \/ upsertGroupKeyGroupSig(p, TRUE)
        \/ upsertScriptKeyDerivedInternalKey(p, TRUE)
        \/ upsertScriptKeyDerivedScriptKey(p, TRUE)
        \/ upsertScriptKeyFetch(p, TRUE)
        \/ upsertScriptKeyFallbackInternalKey(p, TRUE)
        \/ upsertScriptKeyFallbackScriptKey(p, TRUE)
        \/ insertNewAsset(p, TRUE)
        \/ Return(p)

Spec == Init /\ [][Next]_vars

\* Two callers whose imports interleave store call by store call; no store
\* call fails and no import is rolled back.
ConcNext ==
    \E p \in Callers :
        \/ Begin(p, FALSE, ConcBatches, {<<>>})
        \/ upsertGenesisPoint(p, FALSE)
        \/ upsertGenesis(p, FALSE)
        \/ upsertGroupKeyInternalKey(p, FALSE)
        \/ upsertGroupKeyGroupKey(p, FALSE)
        \/ upsertGroupKeyGroupSig(p, FALSE)
        \/ upsertScriptKeyDerivedInternalKey(p, FALSE)
        \/ upsertScriptKeyDerivedScriptKey(p, FALSE)
        \/ upsertScriptKeyFetch(p, FALSE)
        \/ upsertScriptKeyFallbackInternalKey(p, FALSE)
        \/ upsertScriptKeyFallbackScriptKey(p, FALSE)
        \/ insertNewAsset(p, FALSE)
        \/ Return(p)

ConcSpec == Init /\ [][ConcNext]_vars

\* One import at a time, none of whose store calls fails, and calls of
\* fetchGenesis between the imports, whose store call may fail.
FetchNext ==
    \/ \E p \in {1} :
        \/ Begin(p, TRUE, Batches, AnchorChoices)
        \/ upsertGenesisPoint(p, FALSE)
        \/ upsertGenesis(p, FALSE)
        \/ upsertGroupKeyInternalKey(p, FALSE)
        \/ upsertGroupKeyGroupKey(p, FALSE)
        \/ upsertGroupKeyGroupSig(p, FALSE)
        \/ upsertScriptKeyDerivedInternalKey(p, FALSE)
        \/ upsertScriptKeyDerivedScriptKey(p, FALSE)
        \/ upsertScriptKeyFetch(p, FALSE)
        \/ upsertScriptKeyFallbackInternalKey(p, FALSE)
        \/ upsertScriptKeyFallbackScriptKey(p, FALSE)
        \/ insertNewAsset(p, FALSE)
        \/ Return(p)
    \/ FetchGenesis(TRUE)

FetchSpec == Init /\ [][FetchNext]_vars

----------------------------------------------------------------------------
(* Properties. *)

Last(q) == q[Len(q)]

\* The import of caller p has returned and its transaction is closed.
Done(p) == proc[p].pc = "done"

Succeeded(p) == Done(p) /\ proc[p].ret.err = NoErr

\* Some store call of the current import of p failed in the store.
SomeCallFailed(p) == \E i \in 1..Len(log[p]) : ~log[p][i].ok

\* C1: importing the same batch twice in succession returns the same
\* genesis-point identifier and the same per-asset identifiers, and the second
\* import leaves the size of every table, assets included, unchanged.
C1_Idempotent ==
    \A p \in Callers :
        ( /\ Succeeded(p)
          /\ prev.valid
          /\ prev.genesisOutpoint = proc[p].genesisOutpoint
          /\ prev.assets = proc[p].assets
          /\ prev.anchorUtxoIDs = proc[p].anchorUtxoIDs )
        => /\ proc[p].ret.genesisPointID = prev.ret.genesisPointID
           /\ proc[p].ret.assetIDs = prev.ret.assetIDs
           /\ Sizes(db) = prev.sizes

\* C2: if any store call of a batch fails, then after the call has returned
\* no row first written by that batch exists: the store is as it was when
\* the batch began.
C2_Atomic ==
    \A p \in Callers : (Done(p) /\ SomeCallFailed(p)) => db = tx[p]

\* The position of a resolver in the per-asset order
\* GenesisPoint, GenesisAsset, GroupKey/GroupSig, ScriptKey, Asset.
Rank(fn) ==
    CASE fn = "upsertGenesisPoint" -> 0
      [] fn = "upsertGenesis" -> 1
      [] fn = "upsertGroupKey" -> 2
      [] fn = "upsertScriptKey" -> 3
      [] fn = "upsertAssetsWithGenesis" -> 4

\* The rows an assets row refers to exist in store d.
ForeignKeysExist(d, arg) ==
    /\ arg.GenesisID \in 1..Len(d["genesis_assets"])
    /\ arg.ScriptKeyID \in 1..Len(d["script_keys"])
    /\ arg.AssetGroupSigID.Valid =>
           arg.AssetGroupSigID.Int32 \in 1..Len(d["asset_group_sigs"])

\* C3: when InsertNewAsset has just been issued for an asset, the
\* genesis_assets row, the script_keys row and (when non-null) the
\* asset_group_sigs row it refers to exist; the store calls of an import start
\* with the genesis point, go through the assets in order, and per asset run
\* genesis asset, group key, group sig, script key, asset.
C3_ForeignKeysFirst ==
    \A p \in Callers :
        LET l == log[p] IN
        /\ (proc[p].pc # "done" /\ l # <<>> /\ Last(l).op = "InsertNewAsset")
               => ForeignKeysExist(db, Last(l).arg)
        /\ l # <<>> => l[1].op = "UpsertGenesisPoint"
        /\ \A i, j \in 1..Len(l) :
               i < j => /\ l[i].idx <= l[j].idx
                        /\ l[i].idx = l[j].idx => Rank(l[i].fn) <= Rank(l[j].fn)
                        /\ (l[i].idx = l[j].idx /\ l[j].op = "UpsertAssetGroupKey")
                               => l[i].op # "UpsertAssetGroupSig"
        /\ \A j \in 1..Len(l) :
               l[j].op = "InsertNewAsset" =>
                   /\ \E i \in 1..(j - 1) :
                          l[i].idx = l[j].idx /\ l[i].fn = "upsertGenesis" /\ l[i].ok
                   /\ \E i \in 1..(j - 1) :
                          l[i].idx = l[j].idx /\ l[i].fn = "upsertScriptKey"
                   /\ proc[p].assets[l[j].idx].GroupKey # Nil =>
                          \E i \in 1..(j - 1) :
                              /\ l[i].idx = l[j].idx
                              /\ l[i].op = "UpsertAssetGroupSig"
                              /\ l[i].ok

\* Witness of C3: an asset with a group key has just been inserted as the
\* second asset of a batch.
C3_Witness ==
    \E p \in Callers :
        /\ proc[p].pc # "done"
        /\ log[p] # <<>>
        /\ Last(log[p]).op = "InsertNewAsset"
        /\ Last(log[p]).ok
        /\ Last(log[p]).idx = 2
        /\ Last(log[p]).arg.AssetGroupSigID.Valid

\* C4: an assets row carries anchorUtxoIDs[i] only if there are as many
\* anchor references as assets; for every other number of anchor references
\* the call completes and every row is written with a null anchor reference.
C4_AnchorRule ==
    \A p \in Callers :
        /\ proc[p].ret.err # ErrPanic
        /\ \A i \in 1..Len(log[p]) :
               LET e == log[p][i] IN
               (e.op = "InsertNewAsset" /\ e.ok) =>
                   e.arg.AnchorUtxoID =
                       IF Len(proc[p].anchorUtxoIDs) = Len(proc[p].assets)
                       THEN proc[p].anchorUtxoIDs[e.idx]
                       ELSE nullID

\* The import of caller p has returned, its transaction open or closed.
Returned(p) == proc[p].pc \in {"return", "done"}

\* C5: every store failure, one of the script-key lookup included, makes
\* the import return an error; the observed-key fallback is entered only
\* after a lookup that found no row; a failed store call is not issued again.
C5_StoreErrorsPropagate ==
    \A p \in Callers :
        LET l == log[p] IN
        /\ (Returned(p) /\ SomeCallFailed(p)) => proc[p].ret.err # NoErr
        /\ \A i \in 2..Len(l) :
               (l[i].op = "UpsertInternalKey" /\ l[i - 1].op = "FetchScriptKeyIDByTweakedKey")
                   => (l[i - 1].ok /\ l[i - 1].id = 0)
        /\ \A i, j \in 1..Len(l) :
               (i < j /\ ~l[i].ok) =>
                   ~(l[j].op = l[i].op /\ l[j].idx = l[i].idx /\ l[j].arg = l[i].arg)

\* C6: a failed store call is the last store call of the import, and the
\* import returns the error with genesis-point identifier 0 and no asset
\* identifiers.
C6_FailFast ==
    \A p \in Callers :
        \A i \in 1..Len(log[p]) :
            ~log[p][i].ok =>
                /\ i = Len(log[p])
                /\ Returned(p)
                /\ proc[p].ret = Ret(0, <<>>, ErrStore)

\* C7: a successful import returns one identifier per input asset, and the
\* identifier at position i is the one InsertNewAsset returned for the asset
\* at position i: the row it names is the row of that asset.
C7_OrderPreserved ==
    \A p \in Callers :
        (Returned(p) /\ proc[p].ret.err = NoErr) =>
            LET pr == proc[p] IN
            /\ Len(pr.ret.assetIDs) = Len(pr.assets)
            /\ \A i \in 1..Len(pr.assets) :
                   /\ \E j \in 1..Len(log[p]) :
                          /\ log[p][j].op = "InsertNewAsset"
                          /\ log[p][j].idx = i
                          /\ log[p][j].ok
                          /\ log[p][j].id = pr.ret.assetIDs[i]
                   /\ pr.ret.assetIDs[i] \in 1..Len(db["assets"])
                   /\ LET row == db["assets"][pr.ret.assetIDs[i]] IN
                      /\ row.Amount = pr.assets[i].Amount
                      /\ row.GenesisID \in 1..Len(db["genesis_assets"])
                      /\ db["genesis_assets"][row.GenesisID].AssetID =
                             GenesisID(pr.assets[i].Genesis)

\* Witness of C7: a successful import of two assets with distinct genesis, in
\* the order A3, A1, after another import.
C7_Witness ==
    \E p \in Callers :
        /\ Succeeded(p)
        /\ proc[p].assets = <<A3, A1>>
        /\ proc[p].ret.assetIDs[1] > 1

\* No two rows of the table have the same identity.
Unique(d, table) ==
    \A i, j \in 1..Len(d[table]) :
        RowKey(table, d[table][i]) = RowKey(table, d[table][j]) => i = j

\* The upserts of the five entities with an identity, and the identity an
\* argument of each carries.
KeyedUpserts ==
    {"UpsertGenesisPoint", "UpsertGenesisAsset", "UpsertInternalKey",
     "UpsertAssetGroupKey", "UpsertScriptKey"}

KeyOf(op, arg) ==
    CASE op = "UpsertGenesisPoint" -> arg
      [] op = "UpsertGenesisAsset" -> arg.AssetID
      [] op = "UpsertInternalKey" -> arg.RawKey
      [] op = "UpsertAssetGroupKey" -> arg.TweakedGroupKey
      [] op = "UpsertScriptKey" -> arg.TweakedScriptKey

\* C8: when imports interleave store call by store call, there is at most
\* one genesis_points row per encoded outpoint, one genesis_assets row per
\* asset ID, one internal_keys row per raw key, one asset_groups row per
\* tweaked group key and one script_keys row per tweaked script key, and the
\* callers receive the same identifiers for the entities they share: the same
\* key from the same upsert, the same genesis and script key for the same
\* asset, the same genesis point for the same outpoint.
C8_ConcurrentUpserts ==
    /\ Unique(db, "genesis_points")
    /\ Unique(db, "genesis_assets")
    /\ Unique(db, "internal_keys")
    /\ Unique(db, "asset_groups")
    /\ Unique(db, "script_keys")
    /\ \A p, q \in Callers :
           \A i \in 1..Len(log[p]), j \in 1..Len(log[q]) :
               LET e == log[p][i]
                   f == log[q][j]
               IN  /\ ( /\ e.op \in KeyedUpserts
                        /\ f.op = e.op
                        /\ KeyOf(e.op, e.arg) = KeyOf(f.op, f.arg) )
                       => e.id = f.id
                   /\ ( /\ e.op = "InsertNewAsset"
                        /\ f.op = "InsertNewAsset"
                        /\ proc[p].assets[e.idx] = proc[q].assets[f.idx] )
                       => /\ e.arg.GenesisID = f.arg.GenesisID
                          /\ e.arg.ScriptKeyID = f.arg.ScriptKeyID
    /\ \A p, q \in Callers :
           ( /\ Succeeded(p)
             /\ Succeeded(q)
             /\ proc[p].genesisOutpoint = proc[q].genesisOutpoint )
           => proc[p].ret.genesisPointID = proc[q].ret.genesisPointID

\* Witness of C8: two callers imported the asset A2 under the same outpoint,
\* and the script-key lookups of both missed before either wrote the key.
C8_Witness ==
    /\ \A p \in Callers :
           /\ Succeeded(p)
           /\ proc[p].assets = <<A2>>
           /\ proc[p].genesisOutpoint = O1
           /\ \E i \in 1..Len(log[p]) :
                  log[p][i].op = "FetchScriptKeyIDByTweakedKey" /\ log[p][i].id = 0
    /\ Len(db["assets"]) = 2

\* The current asset of caller p.
CurrentAsset(p) == proc[p].assets[proc[p].idx]

\* The internal_keys row of store d for the raw key bytes raw, or 0.
InternalKeyFor(d, raw) == Find(d, "internal_keys", raw)

\* C9 as claimed: a script key with raw-key material takes the derived path
\* without a lookup, and after its UpsertInternalKey the internal_keys row of
\* the raw key records the given key family and key index, whatever the
\* store held before.
C9_DerivedRecordsGiven ==
    \A p \in Callers :
        (proc[p].pc = "DerivedScriptKey") =>
            LET desc == CurrentAsset(p).ScriptKey.TweakedScriptKey.RawKey
                id == InternalKeyFor(db, SerializeCompressed(desc.PubKey))
            IN  /\ \A i \in 1..Len(log[p]) :
                       log[p][i].idx = proc[p].idx =>
                           log[p][i].op # "FetchScriptKeyIDByTweakedKey"
                /\ id # 0
                /\ db["internal_keys"][id].KeyFamily = desc.Family
                /\ db["internal_keys"][id].KeyIndex = desc.Index

\* C9 as amended: a script key with raw-key material takes the derived path
\* without a lookup; its UpsertInternalKey creates the internal_keys row of
\* the raw key with the given key family and key index when the store held
\* no row for that raw key, and otherwise returns the existing row and
\* leaves its key family and key index as first written.
C9_DerivedFirstWrite ==
    [][\A p \in Callers :
          /\ ( /\ proc'[p].pc \in {"FetchScriptKey", "FallbackInternalKey",
                                   "FallbackScriptKey"} )
                  => proc'[p].assets[proc'[p].idx].ScriptKey.TweakedScriptKey = Nil
          /\ (proc[p].pc = "DerivedInternalKey" /\ proc'[p].pc = "DerivedScriptKey") =>
                LET desc == CurrentAsset(p).ScriptKey.TweakedScriptKey.RawKey
                    raw == SerializeCompressed(desc.PubKey)
                    old == InternalKeyFor(db, raw)
                    id == proc'[p].rawScriptKeyID
                IN  /\ id = InternalKeyFor(db', raw)
                    /\ id # 0
                    /\ IF old = 0
                       THEN /\ db'["internal_keys"][id].KeyFamily = desc.Family
                            /\ db'["internal_keys"][id].KeyIndex = desc.Index
                       ELSE /\ id = old
                            /\ db'["internal_keys"] = db["internal_keys"]
      ]_vars

\* Witness of C9: the derived path has resolved a raw key that the store
\* already held under another key family.
C9_Witness ==
    \E p \in Callers :
        /\ proc[p].pc = "DerivedScriptKey"
        /\ proc[p].rawScriptKeyID # 0
        /\ db["internal_keys"][proc[p].rawScriptKeyID].KeyFamily #
               CurrentAsset(p).ScriptKey.TweakedScriptKey.RawKey.Family

\* The script-key lookup for the current asset of p found no row.
LookupMissed(p) ==
    \E i \in 1..Len(log[p]) :
        /\ log[p][i].idx = proc[p].idx
        /\ log[p][i].op = "FetchScriptKeyIDByTweakedKey"
        /\ log[p][i].ok
        /\ log[p][i].id = 0

\* C10 as claimed: when only the tweaked key is given and the lookup finds
\* no script_keys row, upsertScriptKey returns without error and the store
\* then holds a placeholder internal_keys row whose raw key is the tweaked key,
\* with key family 0 and key index 0, and a script_keys row that refers to it
\* and has no tweak.
C10_ObservedPlaceholder ==
    \A p \in Callers :
        ( /\ proc[p].pc = "InsertNewAsset"
          /\ CurrentAsset(p).ScriptKey.TweakedScriptKey = Nil
          /\ LookupMissed(p) ) =>
            LET bytes == SerializeCompressed(CurrentAsset(p).ScriptKey.PubKey)
                ik == proc[p].rawScriptKeyID
                sk == proc[p].scriptKeyID
            IN  /\ ik \in 1..Len(db["internal_keys"])
                /\ db["internal_keys"][ik] =
                       [RawKey |-> bytes, KeyFamily |-> 0, KeyIndex |-> 0]
                /\ sk \in 1..Len(db["script_keys"])
                /\ db["script_keys"][sk] =
                       [InternalKeyID |-> ik, TweakedScriptKey |-> bytes, Tweak |-> <<>>]

\* C10 as amended: when only the tweaked key is given and the lookup finds
\* no script_keys row, the fallback resolves the internal_keys row whose raw
\* key is the tweaked key - a new row with key family 0 and key index 0 when
\* the store held none for these bytes, the existing row, left as it is,
\* otherwise - and then creates a script_keys row that refers to that row
\* and has no tweak; upsertScriptKey returns its identifier without error.
C10_ObservedFallback ==
    [][\A p \in Callers :
          LET bytes == SerializeCompressed(CurrentAsset(p).ScriptKey.PubKey)
              \* the internal_keys row for these bytes before the step, or 0
              ik == InternalKeyFor(db, bytes)
          IN
          \* q.UpsertInternalKey of the fallback has succeeded
          /\ ( /\ proc[p].pc = "FallbackInternalKey"
               /\ proc'[p].pc = "FallbackScriptKey"
               /\ LookupMissed(p) ) =>
                 IF ik = 0
                 THEN /\ db'["internal_keys"] =
                             Append(db["internal_keys"],
                                    [RawKey |-> bytes, KeyFamily |-> 0, KeyIndex |-> 0])
                      /\ proc'[p].rawScriptKeyID = Len(db'["internal_keys"])
                 ELSE /\ db'["internal_keys"] = db["internal_keys"]
                      /\ proc'[p].rawScriptKeyID = ik
          \* q.UpsertScriptKey of the fallback has succeeded
          /\ ( /\ proc[p].pc = "FallbackScriptKey"
               /\ proc'[p].pc # "return"
               /\ LookupMissed(p) ) =>
                 /\ proc'[p].pc = "InsertNewAsset"
                 /\ ik # 0
                 /\ db'["script_keys"] =
                        Append(db["script_keys"],
                               [InternalKeyID |-> ik,
                                TweakedScriptKey |-> bytes,
                                Tweak |-> <<>>])
                 /\ proc'[p].scriptKeyID = Len(db'["script_keys"])
      ]_vars

\* Witness of C10: the fallback after a miss has returned, and the internal
\* key it resolved is a row that was first written with a non-zero family.
C10_Witness ==
    \E p \in Callers :
        /\ proc[p].pc = "InsertNewAsset"
        /\ CurrentAsset(p).ScriptKey.TweakedScriptKey = Nil
        /\ LookupMissed(p)
        /\ proc[p].rawScriptKeyID \in 1..Len(db["internal_keys"])
        /\ db["internal_keys"][proc[p].rawScriptKeyID].KeyFamily # 0
        /\ db["script_keys"][proc[p].scriptKeyID].InternalKeyID = proc[p].rawScriptKeyID

\* The script_keys row of store d for the tweaked key bytes, or 0.
ScriptKeyFor(d, bytes) == Find(d, "script_keys", bytes)

\* C11: when only the tweaked key is given, the store holds a script_keys
\* row for it that the derived path created, and the store carries the lookup
\* out, the lookup is the only store call of upsertScriptKey: it returns the
\* identifier of that row, the one the derived path returned, and the store
\* is left unchanged.
C11_ObservedHit ==
    [][\A p \in Callers :
          LET bytes == SerializeCompressed(CurrentAsset(p).ScriptKey.PubKey)
              id == ScriptKeyFor(db, bytes)
          IN  ( /\ proc[p].pc = "FetchScriptKey"
                /\ proc'[p] # proc[p]
                /\ id # 0
                /\ db["script_keys"][id].Tweak # <<>>
                /\ Last(log'[p]).ok ) =>
                  /\ CurrentAsset(p).ScriptKey.TweakedScriptKey = Nil
                  /\ log'[p] = Append(log[p], Last(log'[p]))
                  /\ Last(log'[p]).op = "FetchScriptKeyIDByTweakedKey"
                  /\ Last(log'[p]).id = id
                  /\ proc'[p].pc = "InsertNewAsset"
                  /\ proc'[p].scriptKeyID = id
                  /\ \A i \in 1..Len(log[p]) :
                         ( /\ log[p][i].op = "UpsertScriptKey"
                           /\ log[p][i].ok
                           /\ log[p][i].arg.TweakedScriptKey = bytes )
                         => log[p][i].id = id
                  /\ db' = db
      ]_vars

\* Witness of C11: the lookup for the second asset of a batch has hit the
\* row that the derived path created for the first asset.
C11_Witness ==
    \E p \in Callers :
        /\ proc[p].pc = "InsertNewAsset"
        /\ proc[p].idx = 2
        /\ CurrentAsset(p).ScriptKey.TweakedScriptKey = Nil
        /\ proc[p].assets[1].ScriptKey.TweakedScriptKey # Nil
        /\ Last(log[p]).op = "FetchScriptKeyIDByTweakedKey"
        /\ Last(log[p]).ok
        /\ Last(log[p]).id # 0
        /\ \E i \in 1..Len(log[p]) :
               /\ log[p][i].op = "UpsertScriptKey"
               /\ log[p][i].idx = 1
               /\ log[p][i].id = proc[p].scriptKeyID

\* Caller p is between the upsert of the genesis asset of its current asset
\* and the return of InsertNewAsset for it.
InAsset(p) ==
    proc[p].pc \notin {"idle", "UpsertGenesisPoint", "return", "done"}

\* C12: for an asset without a group key, upsertGroupKey makes no store
\* call and returns the null reference without error: the step after the
\* genesis upsert leaves internal_keys, asset_groups and asset_group_sigs
\* alone and enters upsertScriptKey, no later store call for this asset comes
\* from upsertGroupKey or touches asset_groups or asset_group_sigs, and the
\* assets row is inserted with a null group-sig reference.
C12_NoGroupKey ==
    [][\A p \in Callers :
          ( /\ InAsset(p)
            /\ CurrentAsset(p).GroupKey = Nil
            /\ proc'[p] # proc[p] ) =>
              /\ db'["asset_groups"] = db["asset_groups"]
              /\ db'["asset_group_sigs"] = db["asset_group_sigs"]
              /\ log'[p] # log[p] => Last(log'[p]).fn # "upsertGroupKey"
              /\ (proc[p].pc = "UpsertGenesisAsset" /\ proc'[p].pc # "return") =>
                     /\ db'["internal_keys"] = db["internal_keys"]
                     /\ proc'[p].pc = ScriptKeyEntry(CurrentAsset(p).ScriptKey)
                     /\ proc'[p].groupSigID = nullID
              /\ (proc[p].pc = "InsertNewAsset" /\ log'[p] # log[p]) =>
                     /\ Last(log'[p]).arg.AssetGroupSigID = nullID
                     /\ Last(log'[p]).ok =>
                            Last(db'["assets"]).AssetGroupSigID = nullID
      ]_vars

\* Witness of C12: an asset without a group key has just been inserted
\* right after an asset with a group key.
C12_Witness ==
    \E p \in Callers :
        /\ proc[p].pc # "done"
        /\ log[p] # <<>>
        /\ Last(log[p]).op = "InsertNewAsset"
        /\ Last(log[p]).ok
        /\ Last(log[p]).idx = 2
        /\ proc[p].assets[2].GroupKey = Nil
        /\ proc[p].assets[1].GroupKey # Nil
        /\ Last(db["assets"]).AssetGroupSigID = nullID
        /\ db["asset_group_sigs"] # <<>>

\* The rows written by the current import of p are in the store: it has not
\* been rolled back.
NotRolledBack(p) == proc[p].pc # "done" \/ Succeeded(p)

\* C13: asset_groups has one row per tweaked group key and
\* asset_group_sigs one row per pair of genesis asset and group key; for
\* every asset imported with a group key the asset_group_sigs row of its
\* genesis asset and of the asset_groups row of its tweaked group key exists,
\* is the row upsertGroupKey returned, and the returned reference is
\* non-null; genesis assets under the same group key share the asset_groups
\* row.
C13_GroupRows ==
    /\ Unique(db, "asset_groups")
    /\ Unique(db, "asset_group_sigs")
    /\ \A p \in Callers :
           NotRolledBack(p) =>
               \A i \in 1..Len(log[p]) :
                   LET e == log[p][i]
                       a == proc[p].assets[e.idx]
                   IN  /\ (e.op = "UpsertAssetGroupSig" /\ e.ok) =>
                           LET gen == Find(db, "genesis_assets", GenesisID(a.Genesis))
                               grp == Find(db, "asset_groups",
                                           SerializeCompressed(a.GroupKey.GroupPubKey))
                           IN  /\ gen # 0
                               /\ grp # 0
                               /\ e.id # 0
                               /\ e.id = Find(db, "asset_group_sigs", <<gen, grp>>)
                       /\ (e.op = "InsertNewAsset" /\ a.GroupKey # Nil) =>
                           /\ e.arg.AssetGroupSigID.Valid
                           /\ \E j \in 1..(i - 1) :
                                  /\ log[p][j].op = "UpsertAssetGroupSig"
                                  /\ log[p][j].idx = e.idx
                                  /\ log[p][j].id = e.arg.AssetGroupSigID.Int32

\* Witness of C13: two genesis assets have been imported under the same
\* group key: one asset_groups row, two asset_group_sigs rows that refer to it.
C13_Witness ==
    /\ \E p \in Callers : Succeeded(p)
    /\ Len(db["asset_groups"]) = 1
    /\ Len(db["asset_group_sigs"]) = 2
    /\ db["asset_group_sigs"][1].GroupKeyID = db["asset_group_sigs"][2].GroupKeyID
    /\ db["asset_group_sigs"][1].GenAssetID # db["asset_group_sigs"][2].GenAssetID

\* C14: fetchGenesis, for the identifier upsertGenesis returned for a genesis
\* under the genesis point of its own outpoint, and answered by the store,
\* succeeds and returns a genesis equal to the input in outpoint, tag,
\* metadata, output index and type, output indices of 2^31 and above
\* included.
C14_GenesisRoundTrip ==
    \A p \in Callers :
        (Succeeded(p) /\ fetched.valid /\ fetched.answer = "ok") =>
            \A i \in 1..Len(log[p]) :
                LET e == log[p][i] IN
                ( /\ e.op = "UpsertGenesisAsset"
                  /\ e.ok
                  /\ e.id = fetched.assetID ) =>
                    LET g == proc[p].assets[e.idx].Genesis IN
                    /\ g.FirstPrevOut = proc[p].genesisOutpoint
                    /\ fetched.err = NoErr
                    /\ fetched.genesis.FirstPrevOut = g.FirstPrevOut
                    /\ fetched.genesis.Tag = g.Tag
                    /\ fetched.genesis.Metadata = g.Metadata
                    /\ fetched.genesis.OutputIndex = g.OutputIndex
                    /\ fetched.genesis.Type = g.Type
                    /\ fetched.genesis = g

\* Witness of C14: the genesis of an asset imported under the outpoint O2,
\* whose output index has the top bit set, has been fetched by the identifier
\* upsertGenesis returned for it.
C14_Witness ==
    \E p \in Callers :
        /\ Succeeded(p)
        /\ fetched.valid
        /\ fetched.answer = "ok"
        /\ fetched.err = NoErr
        /\ fetched.genesis.OutputIndex.hi >= 32768
        /\ fetched.genesis.FirstPrevOut = O2
        /\ \E i \in 1..Len(log[p]) :
               /\ log[p][i].op = "UpsertGenesisAsset"
               /\ log[p][i].id = fetched.assetID
               /\ log[p][i].arg.OutputIndex < 0
               /\ proc[p].assets[log[p][i].idx].Genesis = fetched.genesis

\* The resolvers' positions right before q.UpsertInternalKey.
InternalKeySteps == {"GroupInternalKey", "DerivedInternalKey", "FallbackInternalKey"}

\* The raw key bytes that caller p is about to resolve for its current
\* asset: the raw group key when known, else the tweaked group key; the raw
\* script key; or the tweaked script key standing in for it.
ResolvedRawKey(p) ==
    LET a == CurrentAsset(p) IN
    CASE proc[p].pc = "GroupInternalKey" ->
             IF a.GroupKey.RawKey.PubKey = Nil
             THEN <<IF a.GroupKey.GroupPubKey.Odd THEN 3 ELSE 2, a.GroupKey.GroupPubKey.X>>
             ELSE <<IF a.GroupKey.RawKey.PubKey.Odd THEN 3 ELSE 2, a.GroupKey.RawKey.PubKey.X>>
      [] proc[p].pc = "DerivedInternalKey" ->
             <<IF a.ScriptKey.TweakedScriptKey.RawKey.PubKey.Odd THEN 3 ELSE 2,
               a.ScriptKey.TweakedScriptKey.RawKey.PubKey.X>>
      [] proc[p].pc = "FallbackInternalKey" ->
             <<IF a.ScriptKey.PubKey.Odd THEN 3 ELSE 2, a.ScriptKey.PubKey.X>>

\* C15: every resolution of an internal key, from the group-key resolver,
\* the derived path or the observed fallback, whose raw key bytes the store
\* already holds returns the identifier of the existing row and leaves
\* internal_keys as it is; otherwise it appends the one row of these bytes.
\* No step changes a stored row: key family and key index stay as first
\* written.
C15_InternalKeyFirstWrite ==
    [][/\ \A i \in 1..Len(db["internal_keys"]) :
              i <= Len(db'["internal_keys"]) =>
                  db'["internal_keys"][i] = db["internal_keys"][i]
       /\ \A p \in Callers :
              ( /\ proc[p].pc \in InternalKeySteps
                /\ log'[p] # log[p]
                /\ Last(log'[p]).ok ) =>
                  LET raw == ResolvedRawKey(p)
                      old == InternalKeyFor(db, raw)
                      id == Last(log'[p]).id
                  IN  /\ Last(log'[p]).op = "UpsertInternalKey"
                      /\ id = InternalKeyFor(db', raw)
                      /\ id # 0
                      /\ \A j \in 1..Len(db'["internal_keys"]) :
                             db'["internal_keys"][j].RawKey = raw => j = id
                      /\ IF old # 0
                         THEN /\ id = old
                              /\ db'["internal_keys"] = db["internal_keys"]
                         ELSE /\ Len(db'["internal_keys"]) = Len(db["internal_keys"]) + 1
                              /\ id = Len(db'["internal_keys"])
      ]_vars

\* Witness of C15: the group-key resolver has resolved a raw key that the
\* store already held under another key family and index; the row is
\* unchanged.
C15_Witness ==
    \E p \in Callers :
        /\ proc[p].pc = "UpsertAssetGroupKey"
        /\ proc[p].keyID \in 1..Len(db["internal_keys"])
        /\ CurrentAsset(p).GroupKey.RawKey.PubKey # Nil
        /\ db["internal_keys"][proc[p].keyID].RawKey =
               SerializeCompressed(CurrentAsset(p).GroupKey.RawKey.PubKey)
        /\ db["internal_keys"][proc[p].keyID].KeyFamily #
               CurrentAsset(p).GroupKey.RawKey.Family
        /\ db["internal_keys"][proc[p].keyID].KeyIndex #
               CurrentAsset(p).GroupKey.RawKey.Index

\* The store holds a genesis_assets row with the primary key last fetched.
FetchedRowExists == fetched.assetID \in 1..Len(db["genesis_assets"])

\* C16: fetchGenesis returns an error together with the zero genesis when
\* the store holds no row for the identifier, when the store call fails and
\* when the stored outpoint bytes cannot be decoded; it never returns an
\* error with a genesis that has any field set, and it returns no error only
\* for a row the store returned with well-formed outpoint bytes.
C16_FetchFailsZero ==
    fetched.valid =>
        /\ (~FetchedRowExists \/ fetched.answer # "ok") =>
               /\ fetched.err # NoErr
               /\ fetched.genesis = ZeroGenesis
        /\ (fetched.answer = "ok" /\ ~FetchedRowExists) => fetched.err = ErrNoRows
        /\ fetched.answer = "fail" => fetched.err = ErrStore
        /\ (fetched.answer = "short" /\ FetchedRowExists) =>
               fetched.err = ErrUnexpectedEOF
        /\ fetched.err # NoErr => fetched.genesis = ZeroGenesis
        /\ fetched.err = NoErr => fetched.genesis # ZeroGenesis

\* Witness of C16: fetchGenesis has failed on a stored row whose outpoint
\* bytes are cut short.
C16_Witness ==
    /\ fetched.valid
    /\ fetched.answer = "short"
    /\ FetchedRowExists
    /\ db["genesis_assets"][fetched.assetID].AssetTag # ""
    /\ fetched.err = ErrUnexpectedEOF
    /\ fetched.genesis = ZeroGenesis

\* The import of caller p has returned because encodeOutpoint failed.
EncodeFailed(p) == Returned(p) /\ proc[p].ret.err = ErrEncode

\* C17 as claimed: every import issues UpsertGenesisPoint as its first store
\* call, and no other store call is UpsertGenesisPoint, for the encoded
\* genesis outpoint and for any number of assets; every genesis_assets and
\* asset_groups upsert of the import carries the identifier it returned, a
\* successful import returns that identifier first, and a batch without
\* assets whose genesis point upsert succeeded returns it, with no asset
\* identifiers, after that single call.
C17_GenesisPointOnce ==
    \A p \in Callers :
        LET l == log[p]
            pr == proc[p]
        IN  /\ \A i \in 1..Len(l) : (l[i].op = "UpsertGenesisPoint") <=> (i = 1)
            /\ pr.pc \notin {"idle", "UpsertGenesisPoint"} => Len(l) >= 1
            /\ l # <<>> => l[1].arg = encodeOutpoint(pr.genesisOutpoint)
            /\ \A i \in 1..Len(l) :
                   l[i].op \in {"UpsertGenesisAsset", "UpsertAssetGroupKey"} =>
                       /\ l[1].ok
                       /\ l[1].id # 0
                       /\ l[i].arg.GenesisPointID = l[1].id
            /\ (Returned(p) /\ pr.ret.err = NoErr) =>
                   /\ l # <<>>
                   /\ l[1].ok
                   /\ pr.ret.genesisPointID = l[1].id
                   /\ NotRolledBack(p) =>
                          db["genesis_points"][l[1].id].PrevOut =
                              encodeOutpoint(pr.genesisOutpoint)
            /\ (Returned(p) /\ pr.assets = <<>> /\ l # <<>> /\ l[1].ok) =>
                   /\ Len(l) = 1
                   /\ pr.ret = Ret(l[1].id, <<>>, NoErr)

\* C17 as amended: an import whose genesis outpoint cannot be encoded
\* returns the error without any store call; every other import issues
\* UpsertGenesisPoint as its first store call, and no other store call is
\* UpsertGenesisPoint, for the encoded genesis outpoint and for any number of
\* assets; every genesis_assets and asset_groups upsert of the import carries
\* the identifier it returned, a successful import returns that identifier
\* first, and a batch without assets whose genesis point upsert succeeded
\* returns it, with no asset identifiers, after that single call.
C17_GenesisPointOnceEncoded ==
    \A p \in Callers :
        LET l == log[p]
            pr == proc[p]
        IN  /\ \A i \in 1..Len(l) : (l[i].op = "UpsertGenesisPoint") <=> (i = 1)
            /\ pr.pc \notin {"idle", "UpsertGenesisPoint"} =>
                   IF EncodeFailed(p)
                   THEN l = <<>> /\ pr.ret = Ret(0, <<>>, ErrEncode)
                   ELSE Len(l) >= 1
            /\ l # <<>> => l[1].arg = encodeOutpoint(pr.genesisOutpoint)
            /\ \A i \in 1..Len(l) :
                   l[i].op \in {"UpsertGenesisAsset", "UpsertAssetGroupKey"} =>
                       /\ l[1].ok
                       /\ l[1].id # 0
                       /\ l[i].arg.GenesisPointID = l[1].id
            /\ (Returned(p) /\ pr.ret.err = NoErr) =>
                   /\ l # <<>>
                   /\ l[1].ok
                   /\ pr.ret.genesisPointID = l[1].id
                   /\ NotRolledBack(p) =>
                          db["genesis_points"][l[1].id].PrevOut =
                              encodeOutpoint(pr.genesisOutpoint)
            /\ (Returned(p) /\ pr.assets = <<>> /\ l # <<>> /\ l[1].ok) =>
                   /\ Len(l) = 1
                   /\ pr.ret = Ret(l[1].id, <<>>, NoErr)

\* Witness of C17: an import without assets under the second outpoint has
\* succeeded with the single store call.
C17_Witness ==
    \E p \in Callers :
        /\ Succeeded(p)
        /\ proc[p].assets = <<>>
        /\ proc[p].anchorUtxoIDs # <<>>
        /\ Len(log[p]) = 1
        /\ log[p][1].op = "UpsertGenesisPoint"
        /\ proc[p].ret.genesisPointID = 2
        /\ proc[p].ret.assetIDs = <<>>

\* The primary keys of a table of store d.
Keys(d, table) == 1..Len(d[table])

\* C18: in every state, whether store calls succeeded or failed, every
\* genesis_assets row refers to a genesis_points row, every asset_groups row
\* to an internal_keys row and a genesis_points row, every asset_group_sigs
\* row to a genesis_assets row and an asset_groups row, and every script_keys
\* row to an internal_keys row.
C18_ReferentialIntegrity ==
    /\ \A i \in Keys(db, "genesis_assets") :
           db["genesis_assets"][i].GenesisPointID \in Keys(db, "genesis_points")
    /\ \A i \in Keys(db, "asset_groups") :
           /\ db["asset_groups"][i].InternalKeyID \in Keys(db, "internal_keys")
           /\ db["asset_groups"][i].GenesisPointID \in Keys(db, "genesis_points")
    /\ \A i \in Keys(db, "asset_group_sigs") :
           /\ db["asset_group_sigs"][i].GenAssetID \in Keys(db, "genesis_assets")
           /\ db["asset_group_sigs"][i].GroupKeyID \in Keys(db, "asset_groups")
    /\ \A i \in Keys(db, "script_keys") :
           db["script_keys"][i].InternalKeyID \in Keys(db, "internal_keys")

\* Witness of C18: a store call of an import has failed after the import
\* wrote rows of all these tables, and the import has not been rolled back yet.
C18_Witness ==
    \E p \in Callers :
        /\ proc[p].pc = "return"
        /\ SomeCallFailed(p)
        /\ proc[p].ret.err = ErrStore
        /\ Len(db["genesis_assets"]) > Len(tx[p]["genesis_assets"])
        /\ Len(db["asset_groups"]) > Len(tx[p]["asset_groups"])
        /\ Len(db["asset_group_sigs"]) > Len(tx[p]["asset_group_sigs"])
        /\ Len(db["script_keys"]) > Len(tx[p]["script_keys"])

\* C19: the asset_group_sigs row that an assets row refers to refers to the
\* genesis_assets row of that assets row, and the asset_groups row it refers
\* to is keyed by the tweaked group key of the input asset that the assets
\* row was written for.
C19_GroupSigOfOwnGenesis ==
    /\ \A i \in Keys(db, "assets") :
           LET row == db["assets"][i] IN
           row.AssetGroupSigID.Valid =>
               /\ row.AssetGroupSigID.Int32 \in Keys(db, "asset_group_sigs")
               /\ db["asset_group_sigs"][row.AssetGroupSigID.Int32].GenAssetID =
                      row.GenesisID
    /\ \A p \in Callers :
           NotRolledBack(p) =>
               \A i \in 1..Len(log[p]) :
                   LET e == log[p][i]
                       a == proc[p].assets[e.idx]
                   IN  (e.op = "InsertNewAsset" /\ e.ok /\ e.arg.AssetGroupSigID.Valid) =>
                           /\ e.id \in Keys(db, "assets")
                           /\ db["assets"][e.id] = e.arg
                           /\ a.GroupKey # Nil
                           /\ e.arg.AssetGroupSigID.Int32 \in Keys(db, "asset_group_sigs")
                           /\ LET sig == db["asset_group_sigs"][e.arg.AssetGroupSigID.Int32]
                              IN  /\ sig.GroupKeyID \in Keys(db, "asset_groups")
                                  /\ db["asset_groups"][sig.GroupKeyID].TweakedGroupKey =
                                         SerializeCompressed(a.GroupKey.GroupPubKey)
                                  /\ sig.GenAssetID \in Keys(db, "genesis_assets")
                                  /\ db["genesis_assets"][sig.GenAssetID].AssetID =
                                         GenesisID(a.Genesis)

\* Witness of C19: the store holds assets rows of two genesis assets under
\* the same group key, each with its own asset_group_sigs row, and an assets
\* row without one.
C19_Witness ==
    /\ \E p \in Callers : Succeeded(p)
    /\ \E i, j, k \in Keys(db, "assets") :
           /\ db["assets"][i].AssetGroupSigID.Valid
           /\ db["assets"][j].AssetGroupSigID.Valid
           /\ ~db["assets"][k].AssetGroupSigID.Valid
           /\ db["assets"][i].GenesisID # db["assets"][j].GenesisID
           /\ db["assets"][i].AssetGroupSigID # db["assets"][j].AssetGroupSigID
           /\ db["asset_group_sigs"][db["assets"][i].AssetGroupSigID.Int32].GroupKeyID =
                  db["asset_group_sigs"][db["assets"][j].AssetGroupSigID.Int32].GroupKeyID

\* The positions in the call log of p of the InsertNewAsset calls.
InsertCalls(p) == {i \in 1..Len(log[p]) : log[p][i].op = "InsertNewAsset"}

\* C20: a successful import of N assets has issued exactly N InsertNewAsset
\* calls, all carried out, the k-th of them for the k-th input asset, and the
\* assets table has grown by N rows, whether or not an identical asset was
\* imported before or stands earlier in the batch.
C20_OneInsertPerAsset ==
    \A p \in Callers :
        (Returned(p) /\ proc[p].ret.err = NoErr) =>
            LET l == log[p]
                n == Len(proc[p].assets)
            IN  /\ Cardinality(InsertCalls(p)) = n
                /\ \A k \in 1..n :
                       \E i \in InsertCalls(p) :
                           /\ l[i].idx = k
                           /\ l[i].ok
                           /\ Cardinality({j \in InsertCalls(p) : j <= i}) = k
                           /\ l[i].arg.Amount = proc[p].assets[k].Amount
                           /\ l[i].id = Len(tx[p]["assets"]) + k
                /\ Len(db["assets"]) = Len(tx[p]["assets"]) + n

\* Witness of C20: a batch that holds the asset A1 twice has been imported
\* after an import of A1: two calls of InsertNewAsset, two more rows.
C20_Witness ==
    \E p \in Callers :
        /\ Succeeded(p)
        /\ proc[p].genesisOutpoint = O1
        /\ proc[p].assets = <<A1, A1>>
        /\ prev.valid
        /\ prev.genesisOutpoint = O1
        /\ \E i \in 1..Len(prev.assets) : prev.assets[i] = A1
        /\ Cardinality(InsertCalls(p)) = 2
        /\ Len(db["assets"]) = Len(tx[p]["assets"]) + 2
        /\ db["assets"][Len(db["assets"])] = db["assets"][Len(db["assets"]) - 1]

====
